---- MODULE Spec2Model ----
(***************************************************************************)
(* A model of tandoor_import.py: the TandoorRecipeImporter class           *)
(* (_get_auth_token, _transform_recipe, import_recipe) and the batch loop  *)
(* of main().                                                              *)
(*                                                                         *)
(* Python strings that the code inspects character by character (the lines *)
(* of recipe_urls.txt, the tags, the image URL template) are sequences of  *)
(* one-character strings (tokens for the template).  An optional JSON      *)
(* field is a sequence that is empty when the key is absent and holds the  *)
(* value otherwise.  Every HTTP call of the code is answered by the        *)
(* environment with a response or with a raised exception.                 *)
(*                                                                         *)
(* Of the payload built by _transform_recipe the model carries 'name',     *)
(* 'keywords' and 'private'; the remaining fields are plain copies with    *)
(* defaults and no property below reads them.                              *)
(***************************************************************************)
EXTENDS Integers, Sequences, FiniteSets, TLC

VARIABLES
    pc,             \* position of the control flow in main() / import_recipe()
    auth_token,     \* self.auth_token: <<>> before construction, <<token>> after
    urls,           \* main(): the list returned by f.readlines()
    i,              \* main(): 1-based index of the current element of urls
    url,            \* main(): the loop variable after url.strip()
    recipe_json,    \* import_recipe(): the parsed document handed to it
    tandoor_recipe, \* import_recipe(): <<payload>> once _transform_recipe returned
    recipe_id,      \* import_recipe(): <<id>> once response.json()['id'] was read
    image_url,      \* import_recipe(): the URL built from the template
    authResp,       \* history: <<response>> of the authentication POST
    calls,          \* history: the HTTP calls of the current loop iteration
    log,            \* history: the lines printed in the current loop iteration
    attempts,       \* history: the indices of urls the loop has taken, in order
    result,         \* history: how the current import_recipe call ended
    outcomes,       \* history: the last line printed by each finished iteration
    crashAt         \* history: where an unhandled exception left main()

vars == <<pc, auth_token, urls, i, url, recipe_json, tandoor_recipe, recipe_id,
          image_url, authResp, calls, log, attempts, result, outcomes, crashAt>>

(***************************************************************************)
(* Bounds of the model.                                                    *)
(***************************************************************************)
MaxUrls == 2
MaxTags == 2

(***************************************************************************)
(* Strings.                                                                *)
(***************************************************************************)
\* The characters str.strip() removes (those the model's strings can hold).
Whitespace == {" ", "\t", "\n", "\r"}

RECURSIVE LStrip(_)
LStrip(s) ==
    IF s # <<>> /\ Head(s) \in Whitespace THEN LStrip(Tail(s)) ELSE s

RECURSIVE RStrip(_)
RStrip(s) ==
    IF s # <<>> /\ s[Len(s)] \in Whitespace
    THEN RStrip(SubSeq(s, 1, Len(s) - 1))
    ELSE s

\* str.strip()
Strip(s) == RStrip(LStrip(s))

\* The literal 'pyimport' of line 44.
PyImport == <<"p", "y", "i", "m", "p", "o", "r", "t">>

\* template.replace('<format>', 'crop-642x428'), on a template given as tokens
Replace(template) ==
    [k \in 1..Len(template) |->
        IF template[k] = "<format>" THEN "crop-642x428" ELSE template[k]]

\* All sequences over S of length at most n.
SeqUpTo(S, n) == UNION {[1..k -> S] : k \in 0..n}

(***************************************************************************)
(* Source documents.  A document is what response.json() returned:         *)
(*   isObject  FALSE for a JSON value that is no object (a list)           *)
(*   title     <<>> when the key is absent, <<title>> otherwise            *)
(*   tags      kind "absent" | "null" | "list", val the list of tags       *)
(*   image     'previewImageUrlTemplate': kind "absent" | "str" | "num",   *)
(*             val the template's tokens when a string                     *)
(***************************************************************************)
Doc(o, t, tk, tv, ik, iv) ==
    [isObject |-> o, title |-> t,
     tags |-> [kind |-> tk, val |-> tv],
     image |-> [kind |-> ik, val |-> iv]]

NoDoc == Doc(FALSE, <<>>, "absent", <<>>, "absent", <<>>)

\* The tags the transform can meet.
TagSet == {<<>>, <<" ">>, <<"a">>, <<" ", "a">>, <<"\t", " ">>, PyImport}

\* The documents the source host serves in the batch run.
DocSet ==
    { NoDoc,
      Doc(TRUE, <<>>, "absent", <<>>, "absent", <<>>),
      Doc(TRUE, <<>>, "list", <<<<"a">>>>, "str", <<"http://img/", "<format>">>),
      Doc(TRUE, <<"Soup">>, "list", <<<<"a">>, <<>>, <<" ">>>>, "absent", <<>>),
      Doc(TRUE, <<"Soup">>, "null", <<>>, "absent", <<>>),
      Doc(TRUE, <<"Cake">>, "absent", <<>>, "str", <<"http://img/", "<format>", ".jpg">>),
      Doc(TRUE, <<"Cake">>, "list", <<PyImport>>, "str", <<>>),
      Doc(TRUE, <<"Cake">>, "absent", <<>>, "num", <<>>) }

\* The documents the transform is exercised on.
TransformDocSet ==
    { Doc(TRUE, t, "list", tv, "absent", <<>>) :
        t \in {<<>>, <<"Soup">>}, tv \in SeqUpTo(TagSet, MaxTags) }
    \cup {Doc(TRUE, <<"Soup">>, k, <<>>, "absent", <<>>) : k \in {"absent", "null"}}
    \cup {NoDoc}

(***************************************************************************)
(* _transform_recipe (lines 25-55).                                        *)
(***************************************************************************)
\* line 43: the condition 'tag and tag.strip()'
TagKept_NoStrip(tag) == tag # <<>>

TagKept(tag) == tag # <<>> /\ Strip(tag) # <<>>

\* line 43: the list comprehension over the tags
RECURSIVE KeepTags(_)
KeepTags(tags) ==
    IF tags = <<>> THEN <<>>
    ELSE (IF TagKept(Head(tags)) THEN <<[name |-> Head(tags)]>> ELSE <<>>)
         \o KeepTags(Tail(tags))

\* lines 43-44: recipe_data.get('tags', []) filtered, then 'pyimport' appended
Keywords(doc) ==
    Append(KeepTags(IF doc.tags.kind = "list" THEN doc.tags.val ELSE <<>>),
           [name |-> PyImport])

\* _transform_recipe raises: recipe_data.get on a value that is no dict
\* (line 28), iteration over None (line 43), recipe_data['title'] (line 47).
TransformRaises_TitleDefault(doc) ==
    \/ ~doc.isObject
    \/ doc.tags.kind = "null"

TransformRaises(doc) ==
    \/ ~doc.isObject
    \/ doc.tags.kind = "null"
    \/ doc.title = <<>>

\* lines 46-55: the returned payload; 'name' copies the 'title' field as the
\* document holds it
Payload(doc) ==
    [name |-> doc.title, keywords |-> Keywords(doc), private |-> FALSE]

(***************************************************************************)
(* The environment: what the HTTP calls and the file read can answer.      *)
(* A response with exc = TRUE stands for an exception raised by the call.  *)
(***************************************************************************)
Raised == [exc |-> TRUE, status |-> 0, id |-> <<>>]

Resp(status, id) == [exc |-> FALSE, status |-> status, id |-> id]

\* The recipe ids the target service hands out.
IdSet == {41, 42}

\* POST api-token-auth: 'id' holds the body's 'token' when there is one.
AuthResponses ==
    {Raised, Resp(200, <<"tok">>), Resp(200, <<>>), Resp(401, <<>>)}

\* POST api/recipe: 'id' holds the body's 'id' when there is one.
CreateResponses ==
    {Raised, Resp(201, <<>>), Resp(400, <<>>)}
    \cup {Resp(st, <<n>>) : st \in {200, 201}, n \in IdSet}

\* GET of the image, PUT of the image.
ImageResponses == {Raised, Resp(200, <<>>), Resp(404, <<>>)}

UploadResponses == {Raised, Resp(200, <<>>), Resp(500, <<>>)}

\* The lines f.readlines() can return, and the files made of them.
LineSet == {<<"\n">>, <<" ", "\t", "\n">>, <<" ", "u", "\n">>, <<"v">>}

Files == SeqUpTo(LineSet, MaxUrls)

\* A call as the history records it: 'id' is the id of the response body of
\* a POST, and the id in the path of a PUT.
Call(op, r, id) == [op |-> op, exc |-> r.exc, status |-> r.status, id |-> id]

\* A printed line: its kind, and the title or the URL it names.
Line(kind, title, u) == [kind |-> kind, title |-> title, url |-> u]

(***************************************************************************)
(* __init__ and _get_auth_token (lines 7-23).                              *)
(***************************************************************************)
\* _get_auth_token returns: status 200 and a 'token' in the body (lines 21-22)
AuthSucceeds_NoRaise(r) == TRUE

AuthSucceeds(r) == ~r.exc /\ r.status = 200 /\ r.id # <<>>

\* main() line 117: the importer is constructed, or the exception of
\* _get_auth_token leaves main() unhandled.
Authenticate ==
    /\ pc = "start"
    /\ \E r \in AuthResponses :
        /\ authResp' = <<r>>
        /\ IF AuthSucceeds(r)
           THEN /\ auth_token' = r.id
                /\ pc' = "read"
                /\ UNCHANGED crashAt
           ELSE /\ pc' = "crashed"
                /\ crashAt' = "auth"
                /\ UNCHANGED auth_token
    /\ UNCHANGED <<urls, i, url, recipe_json, tandoor_recipe, recipe_id,
                   image_url, calls, log, attempts, result, outcomes>>

(***************************************************************************)
(* main() (lines 111-135).                                                 *)
(***************************************************************************)
\* lines 120-121: open() and readlines(), which may raise
ReadUrls ==
    /\ pc = "read"
    /\ \/ \E f \in Files :
            /\ urls' = f
            /\ i' = 1
            /\ pc' = "loop"
            /\ UNCHANGED crashAt
       \/ /\ pc' = "crashed"
          /\ crashAt' = "read"
          /\ UNCHANGED <<urls, i>>
    /\ UNCHANGED <<auth_token, url, recipe_json, tandoor_recipe, recipe_id,
                   image_url, authResp, calls, log, attempts, result, outcomes>>

\* lines 124-125: the loop takes the next line and strips it
LoopNext ==
    /\ pc = "loop"
    /\ i <= Len(urls)
    /\ url' = Strip(urls[i])
    /\ attempts' = Append(attempts, i)
    /\ pc' = "fetch"
    /\ recipe_json' = NoDoc
    /\ tandoor_recipe' = <<>>
    /\ recipe_id' = <<>>
    /\ image_url' = <<>>
    /\ calls' = <<>>
    /\ log' = <<>>
    /\ result' = "none"
    /\ UNCHANGED <<auth_token, urls, i, authResp, outcomes, crashAt>>

\* line 124: the list is exhausted, main() returns
LoopExit ==
    /\ pc = "loop"
    /\ i > Len(urls)
    /\ pc' = "done"
    /\ UNCHANGED <<auth_token, urls, i, url, recipe_json, tandoor_recipe,
                   recipe_id, image_url, authResp, calls, log, attempts,
                   result, outcomes, crashAt>>

\* lines 128-132: requests.get(url) and response.json().  requests.get('')
\* raises MissingSchema; any other URL may raise, return a body that is no
\* JSON (json() raises) or return a document, which import_recipe is called on.
Fetch ==
    /\ pc = "fetch"
    /\ \/ /\ calls' = Append(calls, Call("GET_SRC", Raised, <<>>))
          /\ pc' = "main_except"
          /\ UNCHANGED <<recipe_json, result>>
       \/ /\ url # <<>>
          /\ calls' = Append(calls, Call("GET_SRC", Resp(200, <<>>), <<>>))
          /\ \/ /\ pc' = "main_except"
                /\ UNCHANGED <<recipe_json, result>>
             \/ \E d \in DocSet :
                   /\ recipe_json' = d
                   /\ result' = "running"
                   /\ pc' = "transform"
    /\ UNCHANGED <<auth_token, urls, i, url, tandoor_recipe, recipe_id,
                   image_url, authResp, log, attempts, outcomes, crashAt>>

\* lines 134-135: the except clause of the loop body; the loop goes on
MainExcept_Break ==
    /\ pc = "main_except"
    /\ log' = Append(log, Line("url_error", "", url))
    /\ outcomes' = Append(outcomes, "url_error")
    /\ pc' = "done"
    /\ UNCHANGED <<auth_token, urls, i, url, recipe_json, tandoor_recipe,
                   recipe_id, image_url, authResp, calls, attempts, result,
                   crashAt>>

MainExcept_Reraise ==
    /\ pc = "main_except"
    /\ log' = Append(log, Line("url_error", "", url))
    /\ outcomes' = Append(outcomes, "url_error")
    /\ pc' = "crashed"
    /\ crashAt' = "loop"
    /\ UNCHANGED <<auth_token, urls, i, url, recipe_json, tandoor_recipe,
                   recipe_id, image_url, authResp, calls, attempts, result>>

MainExcept ==
    /\ pc = "main_except"
    /\ log' = Append(log, Line("url_error", "", url))
    /\ outcomes' = Append(outcomes, "url_error")
    /\ i' = i + 1
    /\ pc' = "loop"
    /\ UNCHANGED <<auth_token, urls, url, recipe_json, tandoor_recipe,
                   recipe_id, image_url, authResp, calls, attempts, result,
                   crashAt>>

\* line 132: import_recipe returned; the loop goes on
ImportReturn ==
    /\ pc = "ret"
    /\ outcomes' = Append(outcomes, log[Len(log)].kind)
    /\ i' = i + 1
    /\ pc' = "loop"
    /\ UNCHANGED <<auth_token, urls, url, recipe_json, tandoor_recipe,
                   recipe_id, image_url, authResp, calls, log, attempts,
                   result, crashAt>>

(***************************************************************************)
(* import_recipe (lines 57-109).                                           *)
(***************************************************************************)
\* recipe_json['title'] in the printed lines 71, 98, 100, 103 and 105: a
\* KeyError when the key is absent
HasTitle(doc) == doc.title # <<>>

Title(doc) == doc.title[1]

\* line 109: recipe_json.get('title', 'unknown')
ImportName(doc) == IF doc.title = <<>> THEN "unknown" ELSE doc.title[1]

\* line 61: the transform; an exception goes to the outer except clause
Transform ==
    /\ pc = "transform"
    /\ IF TransformRaises(recipe_json)
       THEN /\ pc' = "outer_except"
            /\ UNCHANGED tandoor_recipe
       ELSE /\ tandoor_recipe' = <<Payload(recipe_json)>>
            /\ pc' = "create"
    /\ UNCHANGED <<auth_token, urls, i, url, recipe_json, recipe_id, image_url,
                   authResp, calls, log, attempts, result, outcomes, crashAt>>

\* line 70: the status check after the creation POST
CreateFailed_Not2xx(status) == status \notin {200, 201}

CreateFailed(status) == status # 201

\* line 77: 'if recipe_json.get('previewImageUrlTemplate')': a non-empty
\* string or a number other than 0
HasImage(doc) ==
    \/ doc.image.kind = "str" /\ doc.image.val # <<>>
    \/ doc.image.kind = "num"

\* lines 64-77: the creation POST, the status check, the id, the image test
Create ==
    /\ pc = "create"
    /\ \E r \in CreateResponses :
        /\ calls' = Append(calls, Call("POST", r, r.id))
        /\ IF r.exc
           THEN /\ pc' = "outer_except"
                /\ UNCHANGED <<log, recipe_id, result>>
           ELSE IF CreateFailed(r.status)
           THEN IF HasTitle(recipe_json)
                THEN /\ log' = Append(log, Line("create_error", Title(recipe_json), <<>>))
                     /\ result' = "returned"
                     /\ pc' = "ret"
                     /\ UNCHANGED recipe_id
                ELSE /\ pc' = "outer_except"
                     /\ UNCHANGED <<log, recipe_id, result>>
           ELSE IF r.id = <<>>
           THEN /\ pc' = "outer_except"
                /\ UNCHANGED <<log, recipe_id, result>>
           ELSE /\ recipe_id' = r.id
                /\ pc' = IF HasImage(recipe_json) THEN "image" ELSE "success"
                /\ UNCHANGED <<log, result>>
    /\ UNCHANGED <<auth_token, urls, i, url, recipe_json, tandoor_recipe,
                   image_url, authResp, attempts, outcomes, crashAt>>

\* lines 97-103: a failure of the image step is printed, and the call goes on
\* to line 105
ImageFailed_Propagates(kind) ==
    /\ pc' = "outer_except"
    /\ UNCHANGED log

ImageFailed(kind) ==
    IF HasTitle(recipe_json)
    THEN /\ log' = Append(log, Line(kind, Title(recipe_json), <<>>))
         /\ pc' = "success"
    ELSE /\ pc' = "outer_except"
         /\ UNCHANGED log

\* line 83: the status check after the image download
ShouldUpload_AnyStatus(status) == TRUE

ShouldUpload(status) == status = 200

\* lines 80-83 and 99-103: the image URL and its download.  replace() on a
\* template that is no string raises before any request is made.
ImageGet ==
    /\ pc = "image"
    /\ IF recipe_json.image.kind # "str"
       THEN /\ ImageFailed("image_exception")
            /\ UNCHANGED <<image_url, calls>>
       ELSE /\ image_url' = Replace(recipe_json.image.val)
            /\ \E r \in ImageResponses :
                /\ calls' = Append(calls, Call("GET_IMG", r, <<>>))
                /\ IF r.exc
                   THEN ImageFailed("image_exception")
                   ELSE IF ShouldUpload(r.status)
                   THEN /\ pc' = "upload"
                        /\ UNCHANGED log
                   ELSE ImageFailed("image_download_error")
    /\ UNCHANGED <<auth_token, urls, i, url, recipe_json, tandoor_recipe,
                   recipe_id, authResp, attempts, result, outcomes, crashAt>>

\* lines 85-98 and 102-103: the upload to api/recipe/{recipe_id}/image/
ImagePut ==
    /\ pc = "upload"
    /\ \E r \in UploadResponses :
        /\ calls' = Append(calls, Call("PUT", r, recipe_id))
        /\ IF r.exc
           THEN ImageFailed("image_exception")
           ELSE IF r.status # 200
           THEN ImageFailed("image_add_error")
           ELSE /\ pc' = "success"
                /\ UNCHANGED log
    /\ UNCHANGED <<auth_token, urls, i, url, recipe_json, tandoor_recipe,
                   recipe_id, image_url, authResp, attempts, result, outcomes,
                   crashAt>>

\* lines 105-106: the confirmation, the pause, the return
Success ==
    /\ pc = "success"
    /\ IF HasTitle(recipe_json)
       THEN /\ log' = Append(log, Line("success", Title(recipe_json), <<>>))
            /\ result' = "returned"
            /\ pc' = "ret"
       ELSE /\ pc' = "outer_except"
            /\ UNCHANGED <<log, result>>
    /\ UNCHANGED <<auth_token, urls, i, url, recipe_json, tandoor_recipe,
                   recipe_id, image_url, authResp, calls, attempts, outcomes,
                   crashAt>>

\* lines 108-109: the outer except clause.  recipe_json.get raises inside the
\* handler when recipe_json is no dict, and that exception leaves the call.
OuterExcept ==
    /\ pc = "outer_except"
    /\ IF recipe_json.isObject
       THEN /\ log' = Append(log, Line("import_error", ImportName(recipe_json), <<>>))
            /\ result' = "returned"
            /\ pc' = "ret"
       ELSE /\ result' = "raised"
            /\ pc' = "main_except"
            /\ UNCHANGED log
    /\ UNCHANGED <<auth_token, urls, i, url, recipe_json, tandoor_recipe,
                   recipe_id, image_url, authResp, calls, attempts, outcomes,
                   crashAt>>

(***************************************************************************)
(* The batch run.                                                          *)
(***************************************************************************)
Init ==
    /\ pc = "start"
    /\ auth_token = <<>>
    /\ urls = <<>>
    /\ i = 1
    /\ url = <<>>
    /\ recipe_json = NoDoc
    /\ tandoor_recipe = <<>>
    /\ recipe_id = <<>>
    /\ image_url = <<>>
    /\ authResp = <<>>
    /\ calls = <<>>
    /\ log = <<>>
    /\ attempts = <<>>
    /\ result = "none"
    /\ outcomes = <<>>
    /\ crashAt = "nowhere"

Next ==
    \/ Authenticate
    \/ ReadUrls
    \/ LoopNext
    \/ LoopExit
    \/ Fetch
    \/ MainExcept
    \/ ImportReturn
    \/ Transform
    \/ Create
    \/ ImageGet
    \/ ImagePut
    \/ Success
    \/ OuterExcept

Spec == Init /\ [][Next]_vars

\* Every HTTP call and every step of the script returns in the end.
FairSpec == Spec /\ WF_vars(Next)

(***************************************************************************)
(* _transform_recipe on its own: one call on each document of              *)
(* TransformDocSet, made by a run that has reached line 61.                *)
(***************************************************************************)
InitTransform ==
    /\ pc = "transform"
    /\ auth_token = <<"tok">>
    /\ urls = <<<<" ", "u", "\n">>>>
    /\ i = 1
    /\ url = <<"u">>
    /\ recipe_json \in TransformDocSet
    /\ tandoor_recipe = <<>>
    /\ recipe_id = <<>>
    /\ image_url = <<>>
    /\ authResp = <<Resp(200, <<"tok">>)>>
    /\ calls = <<Call("GET_SRC", Resp(200, <<>>), <<>>)>>
    /\ log = <<>>
    /\ attempts = <<1>>
    /\ result = "running"
    /\ outcomes = <<>>
    /\ crashAt = "nowhere"

NextTransform == Transform

SpecTransform == InitTransform /\ [][NextTransform]_vars

(***************************************************************************)
(* Vocabulary of the properties.                                           *)
(***************************************************************************)
\* The calls of the current iteration with the given operation.
Ops(op) == {k \in DOMAIN calls : calls[k].op = op}

\* A line of the given kind was printed in the current iteration.
Logged(kind) == \E k \in DOMAIN log : log[k].kind = kind

\* The authentication call returned 200 with a token.
AuthOK ==
    /\ authResp # <<>>
    /\ ~authResp[1].exc
    /\ authResp[1].status = 200
    /\ authResp[1].id # <<>>

\* Control is back in main() after the current iteration's import_recipe call.
CallEnded == pc \in {"ret", "loop", "done"} /\ result # "none"

\* The creation POST of the current call returned 201 with an id.
Created ==
    \E k \in Ops("POST") :
        ~calls[k].exc /\ calls[k].status = 201 /\ calls[k].id # <<>>

\* A string that is empty or holds whitespace only.
Blank(s) == \A k \in DOMAIN s : s[k] \in Whitespace

\* 1, 2, ..., n
Upto(n) == [k \in 1..n |-> k]

\* C1: import_recipe never propagates an exception to its caller, whatever
\* the document and whatever the HTTP calls answer.
C1_ImportNeverRaises == result # "raised"

\* C2: when the creation POST returns a status other than 201, the call makes
\* no image GET and no image PUT, prints the creation error and no success
\* line, and returns normally.
C2_CreateFailureStopsCall ==
    (\E k \in Ops("POST") : ~calls[k].exc /\ calls[k].status # 201)
        => /\ Ops("GET_IMG") = {}
           /\ Ops("PUT") = {}
           /\ ~Logged("success")
           /\ Logged("create_error")
           /\ result = "returned"
           /\ pc \in {"ret", "loop", "done"}

C2_Witness ==
    /\ pc = "ret"
    /\ \E k \in Ops("POST") : ~calls[k].exc /\ calls[k].status = 400

\* C3: once the creation POST has returned 201 with an id, no outcome of the
\* image step keeps the call from printing the success line and returning
\* normally.
C3_ImageStepNeverFailsImport ==
    Created
        => /\ result # "raised"
           /\ pc \notin {"outer_except", "main_except", "crashed"}
           /\ CallEnded => Logged("success") /\ result = "returned"

C3_Witness ==
    /\ pc = "ret"
    /\ Created
    /\ Logged("image_exception")
    /\ Logged("success")

\* C4: no source GET, creation POST, image GET or image PUT is issued, and no
\* line of the list is taken, unless the authentication call returned 200
\* with a token before; otherwise the run has stopped at the authentication.
C4_NothingBeforeAuthentication ==
    /\ (calls # <<>> \/ attempts # <<>> \/ pc \notin {"start", "crashed"})
            => AuthOK
    /\ (authResp # <<>> /\ ~AuthOK)
            => /\ pc = "crashed"
               /\ crashAt = "auth"
               /\ calls = <<>>
               /\ attempts = <<>>
               /\ auth_token = <<>>

C4_Witness ==
    /\ authResp # <<>>
    /\ ~authResp[1].exc
    /\ authResp[1].status = 401
    /\ pc = "crashed"

\* C5: once the list is read, the lines are taken one by one in file order,
\* each exactly once, whatever the earlier lines led to, and the run ends
\* after the last line.
C5_EveryLineAttemptedInOrder ==
    /\ [](/\ attempts = Upto(Len(attempts))
          /\ Len(outcomes) = IF pc \in {"loop", "done"} THEN Len(attempts)
                             ELSE IF attempts = <<>> THEN 0
                             ELSE Len(attempts) - 1
          /\ pc = "done" => Len(attempts) = Len(urls))
    /\ [](pc = "loop" => <>(pc = "done" /\ attempts = Upto(Len(urls))))

C5_Witness ==
    /\ pc = "done"
    /\ Len(outcomes) >= 2
    /\ outcomes[1] = "url_error"
    /\ attempts = Upto(Len(urls))

PyImportEntries(kw) == {k \in DOMAIN kw : kw[k].name = PyImport}

\* The positions of the source tags that are not blank, and the j-th of them.
KeptPositions(tags) == {k \in DOMAIN tags : ~Blank(tags[k])}

NthKept(tags, j) ==
    CHOOSE k \in KeptPositions(tags) :
        Cardinality({m \in KeptPositions(tags) : m <= k}) = j

\* keywords is the non-blank source tags in source order, then 'pyimport'.
TagsThenPyImport(tags, kw) ==
    /\ Len(kw) = Cardinality(KeptPositions(tags)) + 1
    /\ kw[Len(kw)].name = PyImport
    /\ \A j \in 1..(Len(kw) - 1) : kw[j].name = tags[NthKept(tags, j)]

SourceTags(doc) == IF doc.tags.kind = "list" THEN doc.tags.val ELSE <<>>

\* C7, as stated: the keywords hold exactly one entry named 'pyimport', the
\* last one, after the non-blank source tags in source order.
C7_ExactlyOnePyImport ==
    tandoor_recipe # <<>>
        => /\ TagsThenPyImport(SourceTags(recipe_json), tandoor_recipe[1].keywords)
           /\ Cardinality(PyImportEntries(tandoor_recipe[1].keywords)) = 1

\* C7, amended: the keywords are the non-blank source tags in source order
\* followed by one appended 'pyimport' entry; the entries named 'pyimport'
\* are that one and one for each source tag that is itself 'pyimport'.
C7_PyImportAppendedOnce ==
    tandoor_recipe # <<>>
        => /\ TagsThenPyImport(SourceTags(recipe_json), tandoor_recipe[1].keywords)
           /\ Cardinality(PyImportEntries(tandoor_recipe[1].keywords))
                = 1 + Cardinality({k \in DOMAIN SourceTags(recipe_json) :
                                      SourceTags(recipe_json)[k] = PyImport})

C7_Witness ==
    /\ tandoor_recipe # <<>>
    /\ Len(SourceTags(recipe_json)) = 2
    /\ SourceTags(recipe_json)[1] = PyImport
    /\ Blank(SourceTags(recipe_json)[2])
    /\ Len(tandoor_recipe[1].keywords) = 2

\* A document of the SourceRecipe shape: an object with a title and, when it
\* has tags, a list of them.
IsSourceRecipe(doc) ==
    doc.isObject /\ doc.title # <<>> /\ doc.tags.kind # "null"

\* C8: a call of import_recipe on a source recipe makes exactly one creation
\* POST and at most one image PUT; the PUT comes after a creation POST that
\* returned 201 and an image GET that returned 200, and its path holds the id
\* of that creation response.
C8_OnePostAtMostOnePut ==
    /\ Cardinality(Ops("POST")) <= 1
    /\ Cardinality(Ops("PUT")) <= 1
    /\ (CallEnded /\ IsSourceRecipe(recipe_json))
            => Cardinality(Ops("POST")) = 1
    /\ \A p \in Ops("PUT") :
        /\ \E c \in Ops("POST") :
            /\ c < p
            /\ ~calls[c].exc
            /\ calls[c].status = 201
            /\ calls[c].id = calls[p].id
        /\ \E g \in Ops("GET_IMG") :
            /\ g < p
            /\ ~calls[g].exc
            /\ calls[g].status = 200

C8_Witness ==
    /\ pc = "ret"
    /\ IsSourceRecipe(recipe_json)
    /\ Ops("PUT") # {}

\* C9: a line that is blank after trimming leads to no GET attempt, no
\* printed error and no call of import_recipe.
C9_BlankLineSkipped ==
    (attempts # <<>> /\ Blank(urls[attempts[Len(attempts)]]))
        => /\ Ops("GET_SRC") = {}
           /\ log = <<>>
           /\ result = "none"

\* C10: for a document without 'title' the call makes no creation POST, no
\* image GET and no image PUT, prints no success line, prints the failure
\* under the name "unknown" and returns normally.
C10_MissingTitleFailsBeforeNetwork ==
    (result # "none" /\ recipe_json.isObject /\ recipe_json.title = <<>>)
        => /\ Ops("POST") = {}
           /\ Ops("GET_IMG") = {}
           /\ Ops("PUT") = {}
           /\ ~Logged("success")
           /\ result # "raised"
           /\ pc # "main_except"
           /\ CallEnded
                => /\ log = <<Line("import_error", "unknown", <<>>)>>
                   /\ result = "returned"

C10_Witness ==
    /\ pc = "ret"
    /\ recipe_json.isObject
    /\ recipe_json.title = <<>>
    /\ Logged("import_error")

====
